---- MODULE Spec2Model ----
(***************************************************************************)
(* The NFS file table of Previous (src/slirp/nfs/FileTable.cpp): the       *)
(* registry path <-> 64-bit handle, the per-directory attribute overlay    *)
(* stores with their ".nfsd_fattrs" sidecar files, the dirty set and the   *)
(* periodic flush, over a small host filesystem.                           *)
(*                                                                         *)
(* Every public operation holds the coordinator mutex from its first to    *)
(* its last statement, so each is one atomic action here.                  *)
(***************************************************************************)
EXTENDS Integers, Sequences, FiniteSets, TLC

(* ------------------------------ bounds -------------------------------- *)
\* steps of one run: file-table calls, flushes and changes of the host
\* filesystem
MaxSteps == 3
\* calls the worker threads make in one run of the threads
MaxCalls == 2

(* --------------------------- machine words ---------------------------- *)
\* uint32_t is <<hi, lo>> and uint64_t is <<w3, w2, w1, w0>>, 16-bit limbs,
\* most significant first.
W16 == 2^16

RECURSIVE BitAnd(_, _)
BitAnd(a, b) ==
    IF a = 0 \/ b = 0 THEN 0
    ELSE (a % 2) * (b % 2) + 2 * BitAnd(a \div 2, b \div 2)

RECURSIVE BitXor(_, _)
BitXor(a, b) ==
    IF a = 0 THEN b
    ELSE IF b = 0 THEN a
    ELSE ((a + b) % 2) + 2 * BitXor(a \div 2, b \div 2)

BitOr(a, b) == a + b - BitAnd(a, b)

U32(n) == <<n \div W16, n % W16>>
And32(a, b) == <<BitAnd(a[1], b[1]), BitAnd(a[2], b[2])>>
Or32(a, b) == <<BitOr(a[1], b[1]), BitOr(a[2], b[2])>>

U64(hi, lo) == <<hi[1], hi[2], lo[1], lo[2]>>
Zero64 == <<0, 0, 0, 0>>
Xor64(a, b) == [i \in 1..4 |-> BitXor(a[i], b[i])]
Not64(a) == [i \in 1..4 |-> (W16 - 1) - a[i]]

\* 0xFFFFFFFF, "no override"
Sentinel == <<W16 - 1, W16 - 1>>
\* sys/stat.h: S_IFMT 0170000, S_IFDIR 0040000, S_IFREG 0100000
S_IFMT == U32(15 * 4096)
S_IFDIR == U32(4 * 4096)
S_IFREG == U32(8 * 4096)
\* the permission bits 07777, the complement of S_IFMT in a 16-bit mode
PermMask == U32(4095)

(* ------------------------------- paths -------------------------------- *)
\* A path is <<directory, filename>>.  "/l" is a symbolic link to the
\* directory "/x"; "/x" and "/y" are directories of the host.
Dirs == {"/x", "/y", "/l"}
HostDirs == {"/x", "/y"}
LinkTarget(d) == IF d = "/l" THEN "/x" ELSE d
\* the directory that holds them
RootDir == "/"
\* the name of a host directory in the root
Leaf(d) == IF LinkTarget(d) = "/x" THEN "x" ELSE "y"

\* the paths callers pass in
RawPaths == {<<"/x", "a">>, <<"/y", "a">>, <<"/l", "a">>}
\* the directory entries of the host
HostPaths == {<<"/x", "a">>, <<"/y", "a">>}
\* the paths "<directory>/." and "<directory>/.."
DotNames == {".", ".."}
DotPaths == {<<"/x", ".">>, <<"/y", "..">>}
\* a symbolic link to the file "/x/a"
SymPath == <<"/x", "s">>
\* the host directory entry a path names, symbolic links followed
Follow(p) == IF p = SymPath THEN <<"/x", "a">> ELSE <<LinkTarget(p[1]), p[2]>>

filename(path) == path[2]
dirname(path) == path[1]

(* ------------------------- the host filesystem ------------------------ *)
NoObj == "none"
Objects == {"f1", "d1"}
\* what stat(2) reports for a host object.  d1 is a directory whose
\* (device, inode) pair xors to zero: device 1, inode 2^32.
HostStatOf(o) ==
    IF o = "f1"
    THEN [st_dev |-> U64(U32(0), U32(1)), st_ino |-> U64(U32(0), U32(5)),
          st_mode |-> Or32(S_IFREG, U32(420)),
          st_uid |-> U32(501), st_gid |-> U32(20)]
    ELSE [st_dev |-> U64(U32(0), U32(1)), st_ino |-> U64(U32(1), U32(0)),
          st_mode |-> Or32(S_IFDIR, U32(493)),
          st_uid |-> U32(0), st_gid |-> U32(0)]
IsDirObj(o) == And32(HostStatOf(o).st_mode, S_IFMT) = S_IFDIR

\* stat(2) of a path: whether it succeeds
HostExists(host, path) == host[Follow(path)] # NoObj
\* stat(2) of a path that exists
HostStat(host, path) == HostStatOf(host[Follow(path)])

\* realpath(3) of "<directory>/." is the directory and of "<directory>/.."
\* the root; the root as <<directory, filename>> has the empty filename
realpath_dot(path) ==
    IF filename(path) = "." THEN <<RootDir, Leaf(dirname(path))>>
    ELSE <<RootDir, "">>

\* realpath(3) fails for a path whose last component does not exist
canonicalize(host, path) ==
    IF filename(path) \in DotNames THEN realpath_dot(path)
    ELSE IF HostExists(host, path) THEN Follow(path) ELSE path

(* -------------------------------- maps -------------------------------- *)
\* a std::map is a function on the set of its keys
EmptyMap == << >>
Put(m, k, v) == [x \in (DOMAIN m) \cup {k} |-> IF x = k THEN v ELSE m[x]]
Erase(m, k) == [x \in (DOMAIN m) \ {k} |-> m[x]]

(* -------------------------- the handle registry ----------------------- *)
rotl(x, n) == [i \in 1..4 |-> x[((i - 1 + (n \div 16)) % 4) + 1]]

make_file_handle_noremap(fstat) ==
    Xor64(rotl(fstat.st_dev, 32), fstat.st_ino)

make_file_handle(fstat) ==
    LET result == Xor64(rotl(fstat.st_dev, 32), fstat.st_ino)
    IN  IF result = Zero64 THEN Not64(result) ELSE result

FileTable_GetFileHandle_restat(S, _path) ==
    LET path == canonicalize(S.host, _path)
    IN  IF HostExists(S.host, path)
        THEN LET result == make_file_handle(HostStat(S.host, path))
             IN  [S |-> [S EXCEPT !.path2handle = Put(@, path, result),
                                  !.handle2path = Put(@, result, path)],
                  ret |-> result]
        ELSE [S |-> S, ret |-> Zero64]

\* An operation maps the state S (the file table's members, the host
\* filesystem and the sidecar files) to [S: the state after, ret: what it
\* returns].
FileTable_GetFileHandle(S, _path) ==
    LET path == canonicalize(S.host, _path)
    IN  IF path \in DOMAIN S.path2handle
        THEN [S |-> S, ret |-> S.path2handle[path]]
        ELSE IF HostExists(S.host, path)
             THEN LET result == make_file_handle(HostStat(S.host, path))
                  IN  [S |-> [S EXCEPT !.path2handle = Put(@, path, result),
                                       !.handle2path = Put(@, result, path)],
                       ret |-> result]
             ELSE [S |-> S, ret |-> Zero64]

FileTable_GetAbsolutePath_index(S, handle) ==
    [S |-> [S EXCEPT !.handle2path =
                IF handle \in DOMAIN @ THEN @ ELSE Put(@, handle, <<"", "">>)],
     ret |-> [found |-> TRUE,
              result |-> IF handle \in DOMAIN S.handle2path
                         THEN S.handle2path[handle] ELSE <<"", "">>]]

FileTable_GetAbsolutePath(S, handle) ==
    IF handle \in DOMAIN S.handle2path
    THEN [S |-> S, ret |-> [found |-> TRUE, result |-> S.handle2path[handle]]]
    ELSE [S |-> S, ret |-> [found |-> FALSE]]

(* ------------------ the registry of class FileTableNFSD --------------- *)
\* VirtualFS::getFileHandle, the getFileHandle of the base class: the
\* handle of the path, 0 when the host stat fails
VirtualFS_getFileHandle(S, absoluteVFSpath) ==
    FileTable_GetFileHandle(S, absoluteVFSpath)

\* VFSPath::canonicalize
VFSPath_canonicalize(host, absoluteVFSpath) ==
    canonicalize(host, absoluteVFSpath)

\* FileTableNFSD::getFileHandle.  N is the wrapper's handle2path.
FileTableNFSD_getFileHandle(N, S, absoluteVFSpath) ==
    LET r == VirtualFS_getFileHandle(S, absoluteVFSpath)
    IN  [S |-> r.S,
         handle2path |-> Put(N, r.ret,
                             VFSPath_canonicalize(S.host, absoluteVFSpath)),
         ret |-> r.ret]

\* FileTableNFSD::getCanonicalPath
FileTableNFSD_getCanonicalPath(N, fhandle) ==
    IF fhandle \in DOMAIN N
    THEN [found |-> TRUE, result |-> N[fhandle]]
    ELSE [found |-> FALSE]

(* ------------------------- attribute records -------------------------- *)
\* class FileAttrs, the fields the file table reads or persists: mode, uid,
\* gid (uint32_t) and reserved (int).
NULL == [null |-> TRUE]

\* FileAttrs::FileAttrs(const struct stat*)
FileAttrs_fromStat(fstat) ==
    [mode |-> fstat.st_mode, uid |-> fstat.st_uid, gid |-> fstat.st_gid,
     reserved |-> 0]

FileAttrs_Valid(statval) == statval # Sentinel

\* printf("%d") of a uint32_t and scanf("%d") into one
ToSigned(u) ==
    IF u[1] >= W16 \div 2 THEN (u[1] - W16) * W16 + u[2] ELSE u[1] * W16 + u[2]
FromSigned(n) == <<(n \div W16) % W16, n % W16>>

\* FileAttrs::Write: the line "0%o:%d:%d:%d:%s\n", as its five fields
FileAttrs_Write(fattrs, name) ==
    [mode |-> fattrs.mode, uid |-> ToSigned(fattrs.uid),
     gid |-> ToSigned(fattrs.gid), reserved |-> fattrs.reserved, name |-> name]

\* FileAttrs::FileAttrs(FILE*, string&) on a well-formed line
FileAttrs_Read(line) ==
    [name |-> line.name,
     fattrs |-> [mode |-> line.mode, uid |-> FromSigned(line.uid),
                 gid |-> FromSigned(line.gid), reserved |-> line.reserved]]

(* --------------------------- sidecar files ---------------------------- *)
NoFile == [exists |-> FALSE, lines |-> << >>]
\* the file ".nfsd_fattrs" of a directory is the one of the directory the
\* path leads to
SidecarOf(directory) == LinkTarget(directory)

\* At end of file fscanf returns EOF, which is not 0, and the constructor
\* copies its uninitialized buffer cname into the name.  What the buffer
\* holds is indeterminate:
\*   "empty"  its first byte is 0: the load ends;
\*   "stale"  it holds a string once: one more entry is stored under that
\*            name, its fields indeterminate, and then the load ends;
\*   "hang"   it holds a string at every read: the load never ends.
IndetAttrs == {[mode |-> U32(0), uid |-> U32(0), gid |-> U32(0), reserved |-> 0]}
StaleNames == {"a", "#"}
UBOutcomes ==
    {[kind |-> "empty"], [kind |-> "hang"]}
    \cup {[kind |-> "stale", name |-> n, fattrs |-> a] :
              n \in StaleNames, a \in IndetAttrs}

RECURSIVE LoadLines(_, _)
LoadLines(lines, attrs) ==
    IF lines = << >> THEN attrs
    ELSE LET r == FileAttrs_Read(Head(lines))
         IN  LoadLines(Tail(lines), Put(attrs, r.name, r.fattrs))

\* FileAttrDB::FileAttrDB: [attrs, hang]
FileAttrDB_new(disk, directory, ub) ==
    LET file == disk[SidecarOf(directory)]
    IN  IF ~file.exists THEN [attrs |-> EmptyMap, hang |-> FALSE]
        ELSE LET read == LoadLines(file.lines, EmptyMap)
             IN  IF ub.kind = "empty" THEN [attrs |-> read, hang |-> FALSE]
                 ELSE IF ub.kind = "stale"
                 THEN [attrs |-> Put(read, ub.name, ub.fattrs), hang |-> FALSE]
                 ELSE [attrs |-> read, hang |-> TRUE]

(* ------------------------- the directory stores ----------------------- *)
\* S.fault: "none", "crash" (a null pointer was written through) or "hang"
Faulted(S) == S.fault # "none"

FileTable_Dirty_lost(S, db) == S

\* FileTable::Dirty
FileTable_Dirty(S, db) == [S EXCEPT !.dirty = @ \cup {db}]

\* FileTable::GetDB: the store of the path's directory, created and loaded
\* on first use.  A store is named by its key in path2db.
FileTable_GetDB(S, _path, ub) ==
    LET path  == canonicalize(S.host, _path)
        dbdir == dirname(path)
    IN  IF dbdir \in DOMAIN S.path2db THEN [S |-> S, ret |-> dbdir]
        ELSE LET db == FileAttrDB_new(S.disk, dbdir, ub)
             IN  IF db.hang THEN [S |-> [S EXCEPT !.fault = "hang"], ret |-> dbdir]
                 ELSE [S |-> [S EXCEPT !.path2db = Put(@, dbdir, db.attrs)],
                       ret |-> dbdir]

\* FileAttrDB::GetFileAttrs: std::map::operator[] stores a null pointer
\* under a name that has no entry
FileAttrDB_GetFileAttrs(S, db, path) ==
    LET attrs == S.path2db[db]
        fname == filename(path)
    IN  IF fname \in DOMAIN attrs THEN [S |-> S, ret |-> attrs[fname]]
        ELSE [S |-> [S EXCEPT !.path2db[db] = Put(@, fname, NULL)],
              ret |-> NULL]

FileAttrDB_SetFileAttrs_anyName(S, db, path, fattrs) ==
    LET attrs == S.path2db[db]
        fname == filename(path)
    IN  IF fname \notin DOMAIN attrs
        THEN FileTable_Dirty([S EXCEPT !.path2db[db] = Put(@, fname, fattrs)], db)
        ELSE IF attrs[fname] = NULL THEN [S EXCEPT !.fault = "crash"]
        ELSE FileTable_Dirty([S EXCEPT !.path2db[db] = Put(@, fname, fattrs)], db)

\* FileAttrDB::SetFileAttrs: Update through a null pointer is a crash
FileAttrDB_SetFileAttrs(S, db, path, fattrs) ==
    LET attrs == S.path2db[db]
        fname == filename(path)
    IN  IF fname = "." \/ fname = ".." THEN S
        ELSE IF fname \notin DOMAIN attrs
        THEN FileTable_Dirty([S EXCEPT !.path2db[db] = Put(@, fname, fattrs)], db)
        ELSE IF attrs[fname] = NULL THEN [S EXCEPT !.fault = "crash"]
        ELSE FileTable_Dirty([S EXCEPT !.path2db[db] = Put(@, fname, fattrs)], db)

FileAttrDB_Remove_quiet(S, db, path) ==
    LET attrs == S.path2db[db]
        fname == filename(path)
    IN  IF fname \in DOMAIN attrs
        THEN [S EXCEPT !.path2db[db] = Erase(@, fname)]
        ELSE S

\* FileAttrDB::Remove
FileAttrDB_Remove(S, db, path) ==
    LET attrs == S.path2db[db]
        fname == filename(path)
    IN  IF fname \in DOMAIN attrs
        THEN FileTable_Dirty([S EXCEPT !.path2db[db] = Erase(@, fname)], db)
        ELSE S

(* ----------------------- the public operations ------------------------ *)
\* a call on the store GetDB returned, g = [S, ret: the store]
DB_GetFileAttrs(g, path) ==
    IF Faulted(g.S) THEN [S |-> g.S, ret |-> NULL]
    ELSE FileAttrDB_GetFileAttrs(g.S, g.ret, path)
DB_SetFileAttrs(g, path, fattrs) ==
    IF Faulted(g.S) THEN g.S ELSE FileAttrDB_SetFileAttrs(g.S, g.ret, path, fattrs)
DB_Remove(g, path) ==
    IF Faulted(g.S) THEN g.S ELSE FileAttrDB_Remove(g.S, g.ret, path)

\* FileTable::GetFileAttrs
FileTable_GetFileAttrs(S, path, ub) ==
    DB_GetFileAttrs(FileTable_GetDB(S, path, ub), path)

\* FileTable::SetFileAttrs
FileTable_SetFileAttrs(S, path, fstat, ub) ==
    DB_SetFileAttrs(FileTable_GetDB(S, path, ub), path, fstat)

\* the st_mode, st_uid and st_gid FileTable::Stat returns under an overlay
\* record
Stat_mode(attrs, st_mode) ==
    IF FileAttrs_Valid(attrs.mode)
    THEN Or32(attrs.mode, And32(st_mode, S_IFMT))
    ELSE st_mode

Stat_uid_overlayAlways(attrs, st_uid) == attrs.uid

Stat_uid(attrs, st_uid) ==
    IF FileAttrs_Valid(attrs.uid) THEN attrs.uid ELSE st_uid

Stat_gid(attrs, st_gid) ==
    IF FileAttrs_Valid(attrs.gid) THEN attrs.gid ELSE st_gid

Stat_overlay(attrs, fstat) ==
    IF attrs = NULL THEN fstat
    ELSE [fstat EXCEPT !.st_mode = Stat_mode(attrs, @),
                       !.st_uid  = Stat_uid(attrs, @),
                       !.st_gid  = Stat_gid(attrs, @)]

\* FileTable::Stat after the canonicalization; a = what GetFileAttrs(path)
\* gave.  ret.result is 0 or -1; ret.fstat is the caller's buffer after a
\* successful stat(2) (after a failed one it holds nothing a caller may read).
Stat_at(host, path, a) ==
    IF Faulted(a.S) \/ ~HostExists(host, path)
    THEN [S |-> a.S, ret |-> [result |-> -1]]
    ELSE [S |-> a.S,
          ret |-> [result |-> 0,
                   fstat |-> Stat_overlay(a.ret, HostStat(host, path))]]

FileTable_Stat_registers(S, _path, ub) ==
    Stat_at(S.host, canonicalize(S.host, _path),
            FileTable_GetFileAttrs(FileTable_GetFileHandle(S, _path).S,
                                   canonicalize(S.host, _path), ub))

\* FileTable::Stat
FileTable_Stat(S, _path, ub) ==
    Stat_at(S.host, canonicalize(S.host, _path),
            FileTable_GetFileAttrs(S, canonicalize(S.host, _path), ub))

\* FileTable::Move, the re-keying of the handle
Move_rekey(S, pathFrom, pathTo, handle) ==
    [S EXCEPT !.path2handle = Put(Erase(@, pathFrom), pathTo, handle),
              !.handle2path = Put(Erase(@, handle), handle, pathTo)]

\* FileTable::Move, the copy of the attributes Stat returned
Move_copy(S, statRet, pathTo, ub2) ==
    IF statRet.result # 0 THEN S
    ELSE DB_SetFileAttrs(FileTable_GetDB(S, pathTo, ub2), pathTo,
                         FileAttrs_fromStat(statRet.fstat))

\* FileTable::Move, the removal of the overlay entry of pathFrom
Move_remove(S, pathFrom, ub1) ==
    IF Faulted(S) THEN S
    ELSE DB_Remove(FileTable_GetDB(S, pathFrom, ub1), pathFrom)

\* FileTable::Move from the call of Stat on; st = what Stat(pathFrom) gave
Move_registered(st, pathFrom, pathTo, ub1, ub2) ==
    IF Faulted(st.S) THEN st.S
    ELSE Move_remove(
             Move_copy(Move_rekey(st.S, pathFrom, pathTo,
                                  st.S.path2handle[pathFrom]),
                       st.ret, pathTo, ub2),
             pathFrom, ub1)

Move_at(S, pathFrom, pathTo, ub1, ub2) ==
    IF pathFrom \notin DOMAIN S.path2handle THEN S
    ELSE Move_registered(FileTable_Stat(S, pathFrom, ub1),
                         pathFrom, pathTo, ub1, ub2)

\* FileTable::Move.  ub1 and ub2 decide the load of the store of pathFrom
\* and of the store of pathTo.
FileTable_Move(S, _pathFrom, _pathTo, ub1, ub2) ==
    Move_at(S, canonicalize(S.host, _pathFrom), canonicalize(S.host, _pathTo),
            ub1, ub2)

\* FileTable::Remove, the erasures
Remove_erase(S, path, handle) ==
    [S EXCEPT !.path2handle = Erase(@, path),
              !.handle2path = Erase(@, handle)]

Remove_at(S, path, ub) ==
    IF path \notin DOMAIN S.path2handle THEN S
    ELSE DB_Remove(FileTable_GetDB(Remove_erase(S, path, S.path2handle[path]),
                                   path, ub),
                   path)

\* FileTable::Remove
FileTable_Remove(S, _path, ub) ==
    Remove_at(S, canonicalize(S.host, _path), ub)

(* ------------------------------ the flush ----------------------------- *)
\* std::map iterates its keys in ascending order
SortedNames == <<"#", "a", "b", "s">>

RECURSIVE WriteLines(_, _)
WriteLines(attrs, names) ==
    IF names = << >> THEN << >>
    ELSE LET n == Head(names)
         IN  IF n \in DOMAIN attrs /\ attrs[n] # NULL
             THEN <<FileAttrs_Write(attrs[n], n)>> \o WriteLines(attrs, Tail(names))
             ELSE WriteLines(attrs, Tail(names))

FileAttrDB_Write_append(S, db, openOk) ==
    LET attrs == S.path2db[db]
    IN  IF DOMAIN attrs = {} \/ ~openOk THEN S
        ELSE [S EXCEPT
                !.disk[SidecarOf(db)] =
                    [exists |-> TRUE,
                     lines |-> @.lines \o WriteLines(attrs, SortedNames)],
                !.path2db[db] =
                    [n \in {m \in DOMAIN attrs : attrs[m] # NULL} |-> attrs[n]]]

\* FileAttrDB::Write.  openOk: fopen(path, "w") succeeds.
FileAttrDB_Write(S, db, openOk) ==
    LET attrs == S.path2db[db]
    IN  IF DOMAIN attrs = {} \/ ~openOk THEN S
        ELSE [S EXCEPT
                !.disk[SidecarOf(db)] =
                    [exists |-> TRUE, lines |-> WriteLines(attrs, SortedNames)],
                !.path2db[db] =
                    [n \in {m \in DOMAIN attrs : attrs[m] # NULL} |-> attrs[n]]]

RECURSIVE WriteAll(_, _, _)
WriteAll(S, order, unwritable) ==
    IF order = << >> THEN S
    ELSE LET db == Head(order)
         IN  WriteAll(IF db \in S.dirty
                      THEN FileAttrDB_Write(S, db, SidecarOf(db) \notin unwritable)
                      ELSE S,
                      Tail(order), unwritable)

\* FileTable::Write.  order: the order of the stores in std::set<FileAttrDB*>
\* (by address); unwritable: the sidecar files that cannot be opened.
FileTable_Write(S, order, unwritable) ==
    [WriteAll(S, order, unwritable) EXCEPT !.dirty = {}]

(* ------------------------------ the state ----------------------------- *)
VARIABLES
    path2handle,    \* FileTable::path2handle
    handle2path,    \* FileTable::handle2path
    path2db,        \* FileTable::path2db, each store as its map attrs
    dirty,          \* FileTable::dirty
    fault,          \* "none", or how the process has stopped
    host,           \* the host filesystem: directory entry -> object
    disk,           \* the sidecar file of each host directory
    last,           \* the latest file-table call or flush: its arguments and
                    \* what it returned
    issued,         \* for each path getFileHandle returned a handle for, not
                    \* removed or moved since: the handle, the canonical
                    \* path of that call, whether the call was a repeat
                    \* and whether the host object was gone at that call
    nSteps,         \* steps so far
    doRun,          \* FileTable::doRun
    held,           \* FileTable::mutex: how often each thread holds it
    pc,             \* the statement each thread is at
    frame,          \* the locals of the call each worker thread is in
    unlocked,       \* the accesses to the registry, the store cache and the
                    \* dirty set made by a thread that did not hold the
                    \* mutex
    mutated,        \* the <<store, filename>> a thread has set a record for
    nfsd_handle2path \* FileTableNFSD::handle2path

tvars == <<doRun, held, pc, frame, unlocked, mutated>>

vars == <<path2handle, handle2path, path2db, dirty, fault, host, disk,
          last, issued, nSteps, tvars, nfsd_handle2path>>

\* the threads: the workers that serve the requests, the maintenance
\* thread FileTable::FileTable starts, and the thread that destroys the
\* table
Workers == {"w1", "w2"}
Threads == Workers \cup {"m", "t"}
NoCall == [op |-> "none"]

State ==
    [path2handle |-> path2handle, handle2path |-> handle2path,
     path2db |-> path2db, dirty |-> dirty, fault |-> fault,
     host |-> host, disk |-> disk]

Becomes(S) ==
    /\ path2handle' = S.path2handle
    /\ handle2path' = S.handle2path
    /\ path2db' = S.path2db
    /\ dirty' = S.dirty
    /\ fault' = S.fault
    /\ host' = S.host
    /\ disk' = S.disk

\* the paths setFileAttrs is called with
AttrPaths == RawPaths \cup DotPaths \cup {SymPath}
\* what setFileAttrs is called with
AttrInputs ==
    {[mode |-> Or32(S_IFREG, U32(493)), uid |-> Sentinel, gid |-> U32(7),
      reserved |-> 0],
     [mode |-> Sentinel, uid |-> U32(0), gid |-> Sentinel, reserved |-> 0]}

\* a directory has one name; a file may have several (hard links)
HostOK(h) ==
    \A p, q \in HostPaths : (p # q /\ h[p] = h[q] /\ h[p] # NoObj) => ~IsDirObj(h[p])

InitHosts ==
    {h \in [HostPaths -> Objects \cup {NoObj}] :
        /\ HostOK(h)
        /\ h[<<"/x", "a">>] = "f1"}

InitDisks ==
    {[d \in HostDirs \cup {RootDir} |-> NoFile],
     [d \in HostDirs \cup {RootDir} |->
        IF d = "/x"
        THEN [exists |-> TRUE,
              lines |-> <<[mode |-> U32(384), uid |-> 7, gid |-> -1,
                           reserved |-> 0, name |-> "a"],
                          [mode |-> U32(448), uid |-> -1, gid |-> 20,
                           reserved |-> 0, name |-> "b"]>>]
        ELSE NoFile]}

Init ==
    /\ path2handle = EmptyMap
    /\ handle2path = EmptyMap
    /\ path2db = EmptyMap
    /\ dirty = {}
    /\ fault = "none"
    /\ host \in InitHosts
    /\ disk \in InitDisks
    /\ last = [op |-> "none"]
    /\ issued = EmptyMap
    /\ nSteps = 0
    /\ doRun = TRUE
    /\ held = [t \in Threads |-> 0]
    /\ pc = [t \in Threads |->
                IF t \in Workers THEN "idle" ELSE IF t = "m" THEN "Run" ELSE "alive"]
    /\ frame = [w \in Workers |-> NoCall]
    /\ unlocked = {}
    /\ mutated = {}
    /\ nfsd_handle2path = EmptyMap

(* ------------------------------ the calls ----------------------------- *)
Running == fault = "none" /\ nSteps < MaxSteps
Step(op) == last' = op /\ nSteps' = nSteps + 1 /\ UNCHANGED tvars

\* the paths that name the directory entry p names
SameEntry(p) == {q \in RawPaths : Follow(q) = Follow(p)}
Forget(m, ps) == [x \in (DOMAIN m) \ ps |-> m[x]]

\* the outcomes of the load GetDB(path) does in state S: one (it does not
\* matter which) unless the store is yet to be loaded from an existing file
UBFor(S, path) ==
    LET dbdir == dirname(canonicalize(S.host, path))
    IN  IF dbdir \notin DOMAIN S.path2db /\ S.disk[SidecarOf(dbdir)].exists
        THEN UBOutcomes
        ELSE {[kind |-> "empty"]}

GetFileHandle(p) ==
    /\ Running
    /\ LET r == FileTableNFSD_getFileHandle(nfsd_handle2path, State, p)
       IN  /\ Becomes(r.S)
           /\ nfsd_handle2path' = r.handle2path
           /\ issued' = IF r.ret = Zero64 THEN issued
                         ELSE Put(issued, p,
                                  [handle |-> r.ret,
                                   key |-> canonicalize(host, p),
                                   again |-> p \in DOMAIN issued,
                                   gone |-> ~HostExists(host, p)])
           /\ Step([op |-> "GetFileHandle", path |-> p, ret |-> r.ret])

GetAbsolutePath(h) ==
    /\ Running
    /\ LET r == FileTable_GetAbsolutePath(State, h)
       IN  /\ Becomes(r.S)
           /\ Step([op |-> "GetAbsolutePath", handle |-> h, ret |-> r.ret,
                    nfsd |-> FileTableNFSD_getCanonicalPath(nfsd_handle2path, h)])
    /\ UNCHANGED <<issued, nfsd_handle2path>>

Stat(p, ub) ==
    /\ Running
    /\ LET r == FileTable_Stat(State, p, ub)
       IN  /\ Becomes(r.S)
           /\ Step([op |-> "Stat", path |-> p, ret |-> r.ret])
    /\ UNCHANGED <<issued, nfsd_handle2path>>

Move(p, q, ub1, ub2) ==
    /\ Running
    /\ Becomes(FileTable_Move(State, p, q, ub1, ub2))
    /\ issued' = Forget(issued, SameEntry(p) \cup SameEntry(q))
    /\ UNCHANGED nfsd_handle2path
    /\ Step([op |-> "Move", path |-> p, pathTo |-> q])

Remove(p, ub) ==
    /\ Running
    /\ Becomes(FileTable_Remove(State, p, ub))
    /\ issued' = Forget(issued, SameEntry(p))
    /\ UNCHANGED nfsd_handle2path
    /\ Step([op |-> "Remove", path |-> p])

SetFileAttrs(p, fstat, ub) ==
    /\ Running
    /\ Becomes(FileTable_SetFileAttrs(State, p, fstat, ub))
    /\ UNCHANGED <<issued, nfsd_handle2path>>
    /\ Step([op |-> "SetFileAttrs", path |-> p, fstat |-> fstat])

GetFileAttrs(p, ub) ==
    /\ Running
    /\ LET r == FileTable_GetFileAttrs(State, p, ub)
       IN  /\ Becomes(r.S)
           /\ Step([op |-> "GetFileAttrs", path |-> p, ret |-> r.ret])
    /\ UNCHANGED <<issued, nfsd_handle2path>>

\* one round of FileTable::Run that finds the dirty set non-empty
Orders ==
    {o \in [1..3 -> Dirs] : \A i, j \in 1..3 : i # j => o[i] # o[j]}

Flush(order, unwritable) ==
    /\ Running
    /\ dirty # {}
    /\ Becomes(FileTable_Write(State, order, unwritable))
    /\ UNCHANGED <<issued, nfsd_handle2path>>
    /\ Step([op |-> "Write"])

(* --------------------- the host changes on its own -------------------- *)
HostChange(h) ==
    /\ Running
    /\ HostOK(h)
    /\ host' = h
    /\ nSteps' = nSteps + 1
    /\ UNCHANGED <<path2handle, handle2path, path2db, dirty, fault, disk,
                   last, issued, nfsd_handle2path, tvars>>

\* unlink(2)
HostUnlink(p) ==
    /\ host[p] # NoObj
    /\ HostChange([host EXCEPT ![p] = NoObj])

\* creat(2), mkdir(2) or link(2)
HostLink(p, o) ==
    /\ host[p] = NoObj
    /\ HostChange([host EXCEPT ![p] = o])

\* rename(2)
HostRename(p, q) ==
    /\ host[p] # NoObj
    /\ p # q
    /\ HostChange([host EXCEPT ![q] = host[p], ![p] = NoObj])

Handles == {make_file_handle(HostStatOf(o)) : o \in Objects} \cup {Zero64}

Next ==
    \/ \E p \in RawPaths : GetFileHandle(p)
    \/ \E h \in Handles : GetAbsolutePath(h)
    \/ \E p \in RawPaths : \E ub \in UBFor(State, p) : Stat(p, ub)
    \/ \E p, q \in RawPaths :
           \E ub1 \in UBFor(State, p), ub2 \in UBFor(State, q) :
               Move(p, q, ub1, ub2)
    \/ \E p \in RawPaths : \E ub \in UBFor(State, p) : Remove(p, ub)
    \/ \E p \in AttrPaths, a \in AttrInputs :
           \E ub \in UBFor(State, p) : SetFileAttrs(p, a, ub)
    \/ \E p \in RawPaths : \E ub \in UBFor(State, p) : GetFileAttrs(p, ub)
    \/ \E o \in Orders, u \in SUBSET HostDirs : Flush(o, u)
    \/ \E p \in HostPaths : HostUnlink(p)
    \/ \E p \in HostPaths, o \in Objects : HostLink(p, o)
    \/ \E p, q \in HostPaths : HostRename(p, q)

Spec == Init /\ [][Next]_vars

(* ----------------------------- the threads ---------------------------- *)
\* The same table with its calls made by concurrent threads, each call in
\* the steps between which another thread may run.  A step that stops the
\* process (fault) ends the run.

\* the mutex (host_mutex_lock through NFSDLock): a thread gets it when no
\* other thread holds it, and may get it again while it holds it
Free(t) == \A o \in Threads \ {t} : held[o] = 0
Acquire(t) == Free(t) /\ held' = [held EXCEPT ![t] = @ + 1]
Release(t) == held' = [held EXCEPT ![t] = @ - 1]

\* The locks a helper takes and gives back while its caller holds the
\* mutex: 1 for the construction of an NFSDLock, -1 for its destruction at
\* the end of the scope.
Locks_GetDB == <<1, -1>>
Locks_Dirty_kept == <<1>>
Locks_Dirty == <<1, -1>>
Locks_GetFileAttrs == <<1>> \o Locks_GetDB \o <<-1>>
Locks_Stat == <<1>> \o Locks_GetFileAttrs \o <<-1>>
\* GetDB(path)->SetFileAttrs(path, fstat) and GetDB(path)->Remove(path):
\* dirtied, the store calls ft.Dirty(this)
Locks_DB(dirtied) == Locks_GetDB \o (IF dirtied THEN Locks_Dirty ELSE << >>)
Locks_SetFileAttrs(dirtied) == <<1>> \o Locks_DB(dirtied) \o <<-1>>

RECURSIVE SumOf(_)
SumOf(locks) == IF locks = << >> THEN 0 ELSE Head(locks) + SumOf(Tail(locks))
\* the highest hold count of a thread that holds the mutex h times and then
\* goes through locks
RECURSIVE PeakOf(_, _)
PeakOf(h, locks) ==
    IF locks = << >> THEN h
    ELSE LET rest == PeakOf(h + Head(locks), Tail(locks))
         IN  IF rest > h THEN rest ELSE h
\* thread t goes through locks: each lock is taken as Acquire takes it
Reenter(t, locks) ==
    /\ (\E i \in 1..Len(locks) : locks[i] = 1) => Free(t)
    /\ held' = [held EXCEPT ![t] = @ + SumOf(locks)]

\* the points between the steps of one Move and of one Remove
MidLabels == {"Move_rekey", "Move_copy", "Move_remove", "Remove_h2p", "Remove_db"}

\* thread t reads or writes what, a set of "registry", "cache", "dirty"
Touch(t, what) ==
    unlocked' =
        IF held[t] > 0 THEN unlocked
        ELSE unlocked \cup
                 {[by |-> t, what |-> what,
                   during |-> {pc[w] : w \in Workers \ {t}} \cap MidLabels]}

Alive == fault = "none" /\ pc["t"] # "done"
Goto(t, label) == pc' = [pc EXCEPT ![t] = label]
\* the label of a worker that has returned from GetFileAttrs and reads the
\* record it was given
Reading == "Reading"
\* the operation returns: the NFSDLock is destroyed.  An operation that has
\* stopped the process does not return.  The worker goes on at label with
\* frame fr; deleted: the <<store, filename>> of the records the operation
\* has deleted, which the workers that read them now read deleted.
ReturnTo(w, locks, label, fr, deleted) ==
    IF fault' = "none"
    THEN /\ (\E i \in 1..Len(locks) : locks[i] = 1) => Free(w)
         /\ held' = [held EXCEPT ![w] = @ + SumOf(locks) - 1]
         /\ Goto(w, label)
         /\ frame' = [v \in Workers |->
                         IF v = w THEN fr
                         ELSE IF pc[v] = Reading /\ frame[v].rec \in deleted
                         THEN [frame[v] EXCEPT !.deleted = TRUE]
                         ELSE frame[v]]
    ELSE UNCHANGED <<held, pc, frame>>
ReturnAfter(w, locks) == ReturnTo(w, locks, "idle", NoCall, {})
Return(w) == ReturnAfter(w, << >>)
\* the store of path, once GetDB(path) has run with load outcome ub, has an
\* entry for the filename of path
HasEntry(S, path, ub) ==
    LET g == FileTable_GetDB(S, path, ub)
    IN  ~Faulted(g.S) /\ filename(path) \in DOMAIN g.S.path2db[g.ret]

\* the records FileAttrDB::Remove(path) deletes, as <<store, filename>>,
\* once GetDB(path) has run with load outcome ub
Deletes(S, path, ub) ==
    LET g == FileTable_GetDB(S, path, ub)
    IN  IF HasEntry(S, path, ub) /\ g.S.path2db[g.ret][filename(path)] # NULL
        THEN {<<g.ret, filename(path)>>}
        ELSE {}

\* the calls a worker makes
Calls ==
    [op : {"GetFileHandle"}, path : HostPaths]
    \cup [op : {"SetFileAttrs"}, path : HostPaths, fstat : AttrInputs]
    \cup [op : {"Move"}, path : HostPaths, pathTo : HostPaths]
    \cup [op : {"Remove"}, path : HostPaths]

\* a worker enters a public operation: NFSDLock lock(mutex)
W_Call(w, c) ==
    /\ Alive /\ pc[w] = "idle" /\ nSteps < MaxCalls
    /\ Acquire(w)
    /\ Goto(w, c.op)
    /\ frame' = [frame EXCEPT ![w] = c]
    /\ nSteps' = nSteps + 1
    /\ UNCHANGED <<path2handle, handle2path, path2db, dirty, fault, host, disk,
                   last, issued, nfsd_handle2path, doRun, unlocked, mutated>>

\* FileTable::GetFileHandle, after the lock
W_GetFileHandle(w) ==
    /\ Alive /\ pc[w] = "GetFileHandle"
    /\ Becomes(FileTable_GetFileHandle(State, frame[w].path).S)
    /\ Touch(w, {"registry"})
    /\ Return(w)
    /\ UNCHANGED <<last, issued, nfsd_handle2path, nSteps, doRun, mutated>>

\* the <<store, filename>> SetFileAttrs(path) sets a record for
Entry(S, path) == <<dirname(canonicalize(S.host, path)), filename(path)>>

\* FileTable::SetFileAttrs, after the lock
W_SetFileAttrs(w, ub) ==
    /\ Alive /\ pc[w] = "SetFileAttrs"
    /\ LET S1 == FileTable_SetFileAttrs(State, frame[w].path, frame[w].fstat, ub)
       IN  /\ Becomes(S1)
           /\ mutated' = IF Faulted(S1) THEN mutated
                          ELSE mutated \cup {Entry(State, frame[w].path)}
    /\ Touch(w, {"cache", "dirty"})
    /\ ReturnAfter(w, Locks_DB(filename(frame[w].path) \notin DotNames))
    /\ UNCHANGED <<last, issued, nfsd_handle2path, nSteps, doRun>>

\* FileTable::Move, after the lock: the canonicalizations, the lookup of
\* pathFrom and, if it is registered, the call of Stat
W_Move_find(w, ub1) ==
    /\ Alive /\ pc[w] = "Move"
    /\ LET pathFrom == canonicalize(host, frame[w].path)
           pathTo   == canonicalize(host, frame[w].pathTo)
           st       == FileTable_Stat(State, pathFrom, ub1)
       IN  IF pathFrom \notin DOMAIN path2handle
           THEN /\ Becomes(State)
                /\ Return(w)
           ELSE /\ Becomes(st.S)
                /\ Goto(w, "Move_rekey")
                /\ frame' = [frame EXCEPT ![w] =
                                [op |-> "Move", pathFrom |-> pathFrom,
                                 pathTo |-> pathTo, statRet |-> st.ret,
                                 peak |-> PeakOf(held[w], Locks_Stat)]]
                /\ Reenter(w, Locks_Stat)
    /\ Touch(w, {"registry", "cache"})
    /\ UNCHANGED <<last, issued, nfsd_handle2path, nSteps, doRun, mutated>>

\* FileTable::Move: the handle is moved from pathFrom to pathTo
W_Move_rekey(w) ==
    /\ Alive /\ pc[w] = "Move_rekey"
    /\ Becomes(Move_rekey(State, frame[w].pathFrom, frame[w].pathTo,
                          path2handle[frame[w].pathFrom]))
    /\ Goto(w, "Move_copy")
    /\ Touch(w, {"registry"})
    /\ UNCHANGED <<last, issued, nfsd_handle2path, nSteps, doRun, held, frame, mutated>>

\* FileTable::Move: the attributes Stat returned are set for pathTo
W_Move_copy(w, ub2) ==
    /\ Alive /\ pc[w] = "Move_copy"
    /\ LET S1 == Move_copy(State, frame[w].statRet, frame[w].pathTo, ub2)
       IN  /\ Becomes(S1)
           /\ mutated' = IF Faulted(S1) \/ frame[w].statRet.result # 0
                          THEN mutated
                          ELSE mutated \cup {Entry(State, frame[w].pathTo)}
    /\ Goto(w, "Move_remove")
    /\ Touch(w, {"cache", "dirty"})
    /\ Reenter(w, IF frame[w].statRet.result # 0 THEN << >>
                  ELSE Locks_SetFileAttrs(
                           filename(frame[w].pathTo) \notin DotNames))
    /\ UNCHANGED <<last, issued, nfsd_handle2path, nSteps, doRun, frame>>

\* FileTable::Move: the overlay entry of pathFrom is removed; return
W_Move_remove(w, ub1) ==
    /\ Alive /\ pc[w] = "Move_remove"
    /\ Becomes(Move_remove(State, frame[w].pathFrom, ub1))
    /\ ReturnTo(w, Locks_DB(HasEntry(State, frame[w].pathFrom, ub1)),
                "idle", NoCall, Deletes(State, frame[w].pathFrom, ub1))
    /\ Touch(w, {"cache", "dirty"})
    /\ UNCHANGED <<last, issued, nfsd_handle2path, nSteps, doRun, mutated>>

\* FileTable::Remove, after the lock: the canonicalization, the lookup
\* and, if the path is registered, the erasure from path2handle
W_Remove_find(w) ==
    /\ Alive /\ pc[w] = "Remove"
    /\ LET path == canonicalize(host, frame[w].path)
       IN  IF path \notin DOMAIN path2handle
           THEN /\ Becomes(State)
                /\ Return(w)
           ELSE /\ Becomes([State EXCEPT !.path2handle = Erase(@, path)])
                /\ Goto(w, "Remove_h2p")
                /\ frame' = [frame EXCEPT ![w] =
                                [op |-> "Remove", path |-> path,
                                 handle |-> path2handle[path]]]
                /\ held' = held
    /\ Touch(w, {"registry"})
    /\ UNCHANGED <<last, issued, nfsd_handle2path, nSteps, doRun, mutated>>

\* FileTable::Remove: the erasure from handle2path
W_Remove_h2p(w) ==
    /\ Alive /\ pc[w] = "Remove_h2p"
    /\ Becomes([State EXCEPT !.handle2path = Erase(@, frame[w].handle)])
    /\ Goto(w, "Remove_db")
    /\ Touch(w, {"registry"})
    /\ UNCHANGED <<last, issued, nfsd_handle2path, nSteps, doRun, held, frame, mutated>>

\* FileTable::Remove: the overlay entry is removed; return
W_Remove_db(w, ub) ==
    /\ Alive /\ pc[w] = "Remove_db"
    /\ Becomes(DB_Remove(FileTable_GetDB(State, frame[w].path, ub),
                         frame[w].path))
    /\ ReturnTo(w, Locks_DB(HasEntry(State, frame[w].path, ub)),
                "idle", NoCall, Deletes(State, frame[w].path, ub))
    /\ Touch(w, {"cache", "dirty"})
    /\ UNCHANGED <<last, issued, nfsd_handle2path, nSteps, doRun, mutated>>

\* the paths a worker calls GetFileAttrs with
ReadPaths == {<<"/x", "a">>}

\* FileTable::GetFileAttrs, from the lock to its release, which no step of
\* a thread that needs the mutex can fall between: the pointer to the
\* record of the store is returned, and a caller that was given a record
\* goes on to read it
W_GetFileAttrs(w, path, ub) ==
    /\ Alive /\ pc[w] = "idle"
    /\ Free(w)
    /\ LET r == FileTable_GetFileAttrs(State, path, ub)
       IN  /\ Becomes(r.S)
           /\ IF Faulted(r.S) \/ r.ret = NULL
              THEN UNCHANGED <<pc, frame>>
              ELSE /\ Goto(w, Reading)
                   /\ frame' = [frame EXCEPT ![w] =
                                   [op |-> Reading,
                                    rec |-> <<FileTable_GetDB(State, path, ub).ret,
                                              filename(path)>>,
                                    deleted |-> FALSE]]
    /\ UNCHANGED <<last, issued, nfsd_handle2path, nSteps, doRun, held,
                   unlocked, mutated>>

\* The caller reads the fields of the record it was given.  The read of a
\* deleted record is undefined: it yields some value, or it stops the
\* process.
W_Read(w, stops) ==
    /\ Alive /\ pc[w] = Reading
    /\ stops => frame[w].deleted
    /\ fault' = IF stops THEN "crash" ELSE fault
    /\ IF stops THEN UNCHANGED <<pc, frame>>
       ELSE Goto(w, "idle") /\ frame' = [frame EXCEPT ![w] = NoCall]
    /\ UNCHANGED <<path2handle, handle2path, path2db, dirty, host, disk,
                   last, issued, nfsd_handle2path, nSteps, doRun, held, unlocked, mutated>>

\* FileTable::Run: while(host_atomic_get(&doRun))
M_test ==
    /\ fault = "none" /\ pc["m"] = "Run"
    /\ Goto("m", IF doRun THEN "Run_size" ELSE "exited")
    /\ UNCHANGED <<path2handle, handle2path, path2db, dirty, fault, host, disk,
                   last, issued, nfsd_handle2path, nSteps, doRun, held, frame, unlocked, mutated>>

\* what dirty.size() may yield: it is read while no other thread is kept
\* from writing dirty, and a read during a write yields the size before or
\* the size after the write, which is the read made before or after the
\* writer's step
SizeSeen == {dirty # {}}

\* FileTable::Run: if(dirty.size()) Write(); host_sleep_sec(1)
M_size(seen) ==
    /\ fault = "none" /\ pc["m"] = "Run_size"
    /\ Goto("m", IF seen THEN "Write" ELSE "Run")
    /\ Touch("m", {"dirty"})
    /\ UNCHANGED <<path2handle, handle2path, path2db, dirty, fault, host, disk,
                   last, issued, nfsd_handle2path, nSteps, doRun, held, frame, mutated>>

\* FileTable::Write: NFSDLock lock(mutex)
M_lock ==
    /\ fault = "none" /\ pc["m"] = "Write"
    /\ Acquire("m")
    /\ Goto("m", "Write_body")
    /\ UNCHANGED <<path2handle, handle2path, path2db, dirty, fault, host, disk,
                   last, issued, nfsd_handle2path, nSteps, doRun, frame, unlocked, mutated>>

\* FileTable::Write, after the lock, and host_sleep_sec(1)
M_write(order, unwritable) ==
    /\ fault = "none" /\ pc["m"] = "Write_body"
    /\ Becomes(FileTable_Write(State, order, unwritable))
    /\ Release("m")
    /\ Goto("m", "Run")
    /\ Touch("m", {"cache", "dirty"})
    /\ UNCHANGED <<last, issued, nfsd_handle2path, nSteps, doRun, frame, mutated>>

T_lock_skipped ==
    /\ fault = "none" /\ pc["t"] = "alive"
    /\ held' = held
    /\ Goto("t", "stop")
    /\ UNCHANGED <<path2handle, handle2path, path2db, dirty, fault, host, disk,
                   last, issued, nfsd_handle2path, nSteps, doRun, frame, unlocked, mutated>>
\* FileTable::~FileTable: NFSDLock lock(mutex)
T_lock ==
    /\ fault = "none" /\ pc["t"] = "alive"
    /\ Acquire("t")
    /\ Goto("t", "stop")
    /\ UNCHANGED <<path2handle, handle2path, path2db, dirty, fault, host, disk,
                   last, issued, nfsd_handle2path, nSteps, doRun, frame, unlocked, mutated>>

\* FileTable::~FileTable: host_atomic_set(&doRun, 0)
T_stop ==
    /\ fault = "none" /\ pc["t"] = "stop"
    /\ doRun' = FALSE
    /\ Goto("t", "wait")
    /\ UNCHANGED <<path2handle, handle2path, path2db, dirty, fault, host, disk,
                   last, issued, nfsd_handle2path, nSteps, held, frame, unlocked, mutated>>

\* FileTable::~FileTable: host_thread_wait(thread) returns when Run has
\* returned
T_wait ==
    /\ fault = "none" /\ pc["t"] = "wait"
    /\ pc["m"] = "exited"
    /\ Goto("t", "delete")
    /\ UNCHANGED <<path2handle, handle2path, path2db, dirty, fault, host, disk,
                   last, issued, nfsd_handle2path, nSteps, doRun, held, frame, unlocked, mutated>>

\* FileTable::~FileTable: the stores are deleted, the lock is released and
\* the members are destroyed
T_delete ==
    /\ fault = "none" /\ pc["t"] = "delete"
    /\ Becomes([State EXCEPT !.path2handle = EmptyMap,
                             !.handle2path = EmptyMap,
                             !.path2db = EmptyMap,
                             !.dirty = {}])
    /\ Release("t")
    /\ Goto("t", "done")
    /\ Touch("t", {"registry", "cache", "dirty"})
    /\ UNCHANGED <<last, issued, nfsd_handle2path, nSteps, doRun, frame, mutated>>

\* the workers at a statement
At(label) == {w \in Workers : pc[w] = label}

\* the steps of the worker threads
W_Step ==
    \/ \E w \in Workers, c \in Calls : W_Call(w, c)
    \/ \E w \in Workers : W_GetFileHandle(w)
    \/ \E w \in At("SetFileAttrs") :
           \E ub \in UBFor(State, frame[w].path) : W_SetFileAttrs(w, ub)
    \/ \E w \in At("Move") :
           \E ub1 \in UBFor(State, frame[w].path) : W_Move_find(w, ub1)
    \/ \E w \in Workers : W_Move_rekey(w)
    \/ \E w \in At("Move_copy") :
           \E ub2 \in UBFor(State, frame[w].pathTo) : W_Move_copy(w, ub2)
    \/ \E w \in At("Move_remove") :
           \E ub1 \in UBFor(State, frame[w].pathFrom) : W_Move_remove(w, ub1)
    \/ \E w \in Workers : W_Remove_find(w)
    \/ \E w \in Workers : W_Remove_h2p(w)
    \/ \E w \in At("Remove_db") :
           \E ub \in UBFor(State, frame[w].path) : W_Remove_db(w, ub)

\* the steps of the workers that read attribute records
R_Step ==
    \/ \E w \in Workers, path \in ReadPaths :
           \E ub \in UBFor(State, path) : W_GetFileAttrs(w, path, ub)
    \/ \E w \in Workers, stops \in BOOLEAN : W_Read(w, stops)

\* the steps of the maintenance thread; unwritable: the sets of sidecar
\* files that a flush may find it cannot open
M_Step(unwritable) ==
    \/ M_test
    \/ \E seen \in SizeSeen : M_size(seen)
    \/ M_lock
    \/ \E o \in Orders, u \in unwritable : M_write(o, u)

\* the steps of the destructor
T_Step == T_lock \/ T_stop \/ T_wait \/ T_delete

ThreadNext == W_Step \/ R_Step \/ M_Step(SUBSET HostDirs) \/ T_Step

ThreadSpec == Init /\ [][ThreadNext]_vars

\* the threads while every sidecar file can be written, the maintenance
\* thread scheduled fairly, the workers making the calls that change the
\* table
FairNext == W_Step \/ M_Step({{}}) \/ T_Step

FairSpec == Init /\ [][FairNext]_vars /\ WF_vars(M_Step({{}}))

(* ------------------------------ the claims ---------------------------- *)
\* the calls as made in the current state
Canon(p) == canonicalize(host, p)
Found(path) == [found |-> TRUE, result |-> path]
\* the map of the store GetDB(path) returns in state S
StoreOf(S, path, ub) ==
    LET dbdir == dirname(canonicalize(S.host, path))
    IN  IF dbdir \in DOMAIN S.path2db THEN S.path2db[dbdir]
        ELSE FileAttrDB_new(S.disk, dbdir, ub).attrs
\* the overlay record of path in state S, or NULL
Overlay(S, path, ub) ==
    LET attrs == StoreOf(S, path, ub)
    IN  IF filename(path) \in DOMAIN attrs THEN attrs[filename(path)] ELSE NULL
SameTable(S, T) ==
    /\ S.path2handle = T.path2handle
    /\ S.handle2path = T.handle2path
    /\ S.path2db = T.path2db
    /\ S.dirty = T.dirty

\* C1: in every reachable state the path-to-handle map and the
\* handle-to-path map are exact inverses: path2handle[p] = h if and only if
\* handle2path[h] = p.
C1_Inverses ==
    /\ \A p \in DOMAIN path2handle :
           /\ path2handle[p] \in DOMAIN handle2path
           /\ handle2path[path2handle[p]] = p
    /\ \A h \in DOMAIN handle2path :
           /\ handle2path[h] \in DOMAIN path2handle
           /\ path2handle[handle2path[h]] = h

\* C2: for every path p getFileHandle has returned a handle for, with no
\* remove or move of p since, resolveHandle(getFileHandle(p)) is the
\* canonical form of p.  Stated for the paths getFileHandle still returns a
\* handle for.
C2_ResolveIssued ==
    fault = "none" =>
        \A p \in DOMAIN issued :
            LET g == FileTable_GetFileHandle(State, p)
            IN  g.ret # Zero64 =>
                    FileTable_GetAbsolutePath(g.S, g.ret).ret = Found(Canon(p))

\* C3: if h = getFileHandle(A) is not 0 then after move(A, B), B another
\* path than A, resolveHandle(h) is canonical B, getFileHandle(B) is h, A is
\* no key of path2handle and no handle resolves to A.
C3_MoveKeepsHandle ==
    fault = "none" =>
        \A A, B \in RawPaths :
            \A ub1 \in UBFor(State, A), ub2 \in UBFor(State, B) :
                LET g == FileTable_GetFileHandle(State, A)
                    m == FileTable_Move(g.S, A, B, ub1, ub2)
                IN  (g.ret # Zero64 /\ Canon(A) # Canon(B) /\ ~Faulted(m)) =>
                        /\ FileTable_GetAbsolutePath(m, g.ret).ret = Found(Canon(B))
                        /\ FileTable_GetFileHandle(m, B).ret = g.ret
                        /\ Canon(A) \notin DOMAIN m.path2handle
                        /\ \A h \in DOMAIN m.handle2path :
                               m.handle2path[h] # Canon(A)

\* C4: for every path p that has a registered handle h and an overlay
\* entry, whatever the host filesystem holds at the time of the call, after
\* remove(p) resolveHandle(h) is absent and getFileAttrs(p) is absent.
C4_RemovedAbsent ==
    fault = "none" =>
        \A p \in RawPaths :
            \A ub \in UBFor(State, p) :
                (/\ Follow(p) \in DOMAIN path2handle
                 /\ dirname(Follow(p)) \in DOMAIN path2db
                 /\ Overlay(State, Follow(p), ub) # NULL) =>
                    LET r == FileTable_Remove(State, p, ub)
                    IN  ~Faulted(r) =>
                            /\ ~FileTable_GetAbsolutePath(
                                    r, path2handle[Follow(p)]).ret.found
                            /\ \A ub2 \in UBFor(r, p) :
                                   LET a == FileTable_GetFileAttrs(r, p, ub2)
                                   IN  ~Faulted(a.S) => a.ret = NULL

C6_NotFound ==
    fault = "none" =>
        \A p \in RawPaths :
            LET g == FileTable_GetFileHandle(State, p)
            IN  /\ (g.ret = Zero64) <=>
                       (/\ Canon(p) \notin DOMAIN path2handle
                        /\ ~HostExists(host, Canon(p)))
                /\ g.ret = Zero64 => SameTable(g.S, State)

\* getFileHandle has returned 0 for a path that is not on the host
C6_Witness ==
    /\ fault = "none"
    /\ last.op = "GetFileHandle"
    /\ last.ret = Zero64
    /\ ~HostExists(host, last.path)
    /\ path2handle # EmptyMap

\* C7: when the host stat of p succeeds and p has an overlay record,
\* statPath(p) returns the overlay uid unless it is the sentinel and the
\* host uid otherwise, the same for gid, and the permission bits of the
\* overlay mode unless that is the sentinel and the host's otherwise; with
\* no overlay record it returns the host values.
C7_OverlayPrecedence ==
    fault = "none" =>
        \A p \in RawPaths :
            \A ub \in UBFor(State, p) :
                LET r  == FileTable_Stat(State, p, ub)
                    o  == Overlay(State, Canon(p), ub)
                    hs == HostStat(host, Canon(p))
                IN  (HostExists(host, Canon(p)) /\ ~Faulted(r.S)) =>
                        /\ r.ret.result = 0
                        /\ o = NULL => r.ret.fstat = hs
                        /\ o # NULL =>
                            /\ r.ret.fstat.st_uid =
                                   IF o.uid # Sentinel THEN o.uid ELSE hs.st_uid
                            /\ r.ret.fstat.st_gid =
                                   IF o.gid # Sentinel THEN o.gid ELSE hs.st_gid
                            /\ And32(r.ret.fstat.st_mode, PermMask) =
                                   IF o.mode # Sentinel
                                   THEN And32(o.mode, PermMask)
                                   ELSE And32(hs.st_mode, PermMask)

\* statPath has returned the permission bits and the gid of an overlay
\* record and, the record's uid being the sentinel, the uid of the host
C7_Witness ==
    /\ fault = "none"
    /\ last.op = "Stat"
    /\ last.ret.result = 0
    /\ HostExists(host, last.path)
    /\ dirname(Canon(last.path)) \in DOMAIN path2db
    /\ LET o  == Overlay(State, Canon(last.path), [kind |-> "empty"])
           hs == HostStat(host, Canon(last.path))
       IN  /\ o # NULL
           /\ o.uid = Sentinel /\ o.mode # Sentinel /\ o.gid # Sentinel
           /\ last.ret.fstat.st_uid = hs.st_uid
           /\ last.ret.fstat.st_gid = o.gid /\ o.gid # hs.st_gid
           /\ And32(last.ret.fstat.st_mode, PermMask) = And32(o.mode, PermMask)
           /\ And32(o.mode, PermMask) # And32(hs.st_mode, PermMask)

\* C8: whatever the overlay record's mode holds, the file-type bits of the
\* mode statPath returns are the file-type bits of the host stat result.
C8_TypeBitsFromHost ==
    fault = "none" =>
        \A p \in RawPaths :
            \A ub \in UBFor(State, p) :
                LET r == FileTable_Stat(State, p, ub)
                IN  (HostExists(host, Canon(p)) /\ ~Faulted(r.S)) =>
                        And32(r.ret.fstat.st_mode, S_IFMT) =
                            And32(HostStat(host, Canon(p)).st_mode, S_IFMT)

\* C9: statPath(p) fails exactly when the host stat of canonical p fails,
\* and a failing statPath leaves the registry, the store cache, every
\* store's map and the dirty set unchanged.
C9_StatNotFound ==
    fault = "none" =>
        \A p \in RawPaths :
            \A ub \in UBFor(State, p) :
                LET r == FileTable_Stat(State, p, ub)
                IN  ~Faulted(r.S) =>
                        /\ (r.ret.result # 0) <=> ~HostExists(host, Canon(p))
                        /\ r.ret.result # 0 => SameTable(r.S, State)

\* C10: for every path p, every record r and every history, setFileAttrs(p,
\* r) completes without fault and a following getFileAttrs(p) returns a
\* record equal to r.
C10_SetThenGet ==
    fault = "none" =>
        \A p \in RawPaths, fstat \in AttrInputs :
            \A ub \in UBFor(State, p) :
                LET S1 == FileTable_SetFileAttrs(State, p, fstat, ub)
                IN  /\ S1.fault # "crash"
                    /\ ~Faulted(S1) =>
                           FileTable_GetFileAttrs(S1, p, ub).ret = fstat

\* C11: setFileAttrs(p, r) where the filename of p is "." or ".." leaves the
\* filename map of the store of p as it was (as loaded, if the call is the
\* first reference to the store), adds no store to the dirty set and
\* changes no other store.
C11_DotNamesRejected ==
    fault = "none" =>
        \A p \in DotPaths, fstat \in AttrInputs :
            \A ub \in UBFor(State, p) :
                LET S1 == FileTable_SetFileAttrs(State, p, fstat, ub)
                    db == dirname(Canon(p))
                IN  ~Faulted(S1) =>
                        /\ db \in DOMAIN S1.path2db
                        /\ S1.path2db[db] = StoreOf(State, p, ub)
                        /\ \A d \in DOMAIN path2db : S1.path2db[d] = path2db[d]
                        /\ S1.dirty = dirty
                        /\ S1.disk = disk

\* setFileAttrs has been called with a path whose filename is "." or ".."
\* while another store was dirty, and has created the store of the path
\* with no entry
C11_Witness ==
    /\ fault = "none"
    /\ last.op = "SetFileAttrs"
    /\ filename(last.path) \in DotNames
    /\ dirname(Canon(last.path)) \in DOMAIN path2db
    /\ path2db[dirname(Canon(last.path))] = EmptyMap
    /\ dirname(Canon(last.path)) \notin dirty
    /\ dirty # {}

\* no worker is inside a call
AllIdle == \A w \in Workers : pc[w] = "idle"
\* the sidecar file of store d holds the line of the record of filename n
OnDisk(d, n) ==
    \E i \in 1..Len(disk[SidecarOf(d)].lines) :
        disk[SidecarOf(d)].lines[i] = FileAttrs_Write(path2db[d][n], n)
\* the dirty set is empty and the sidecar files hold the record of every
\* filename that was set and has a record
Flushed ==
    /\ dirty = {}
    /\ \A e \in mutated :
           (/\ e[1] \in DOMAIN path2db
            /\ e[2] \in DOMAIN path2db[e[1]]
            /\ path2db[e[1]][e[2]] # NULL) => OnDisk(e[1], e[2])

\* C12: while the table is not being destroyed, whenever the workers have
\* returned from their calls and make no further call, eventually the dirty
\* set is empty and the sidecar file of each store holds the latest mode,
\* uid, gid and reserved of every filename that was set.
C12_Convergence ==
    []<>(~AllIdle \/ pc["t"] # "alive" \/ Flushed)

\* two workers have set records in two directories and both sidecar files
\* have been written
C12_Witness ==
    /\ AllIdle /\ Flushed /\ pc["t"] = "alive"
    /\ mutated = {<<"/x", "a">>, <<"/y", "a">>}
    /\ \A e \in mutated : e[1] \in DOMAIN path2db /\ OnDisk(e[1], e[2])

\* C14: no state is reachable in which the destructor waits for the
\* maintenance thread (holding the mutex) while the maintenance thread
\* waits for the mutex.
C14_NoDeadlock ==
    ~(pc["t"] = "wait" /\ held["t"] > 0 /\ pc["m"] = "Write")

\* C15: every read and write of the registry, the store cache and the
\* dirty set is made by a thread that holds the mutex, and at most one
\* thread holds the mutex.
C15_LockDiscipline ==
    /\ unlocked = {}
    /\ Cardinality({t \in Threads : held[t] > 0}) <= 1

C13_FailedWriteStaysDirty ==
    fault = "none" =>
        \A o \in Orders, u \in SUBSET HostDirs :
            LET S1 == FileTable_Write(State, o, u)
            IN  \A db \in dirty :
                    (DOMAIN path2db[db] # {} /\ SidecarOf(db) \in u) =>
                        db \in S1.dirty

\* the records of a store, its null entries left out
Records(attrs) == [n \in {m \in DOMAIN attrs : attrs[m] # NULL} |-> attrs[n]]

\* C17: for every store with at least one entry, writing it to its sidecar
\* file and loading a new store from that file yields the same filenames,
\* each with the same field values.
C17_RoundTrip ==
    fault = "none" =>
        \A db \in DOMAIN path2db :
            DOMAIN path2db[db] # {} =>
                \A ub \in UBOutcomes :
                    LET S1 == FileAttrDB_Write(State, db, TRUE)
                        re == FileAttrDB_new(S1.disk, db, ub)
                    IN  ~re.hang /\ re.attrs = path2db[db]

\* C18: a flush leaves a sidecar file that did not exist absent or with at
\* least one record line, and leaves an existing sidecar file unchanged if
\* no store of its directory holds a record.
C18_NoEmptySidecar ==
    fault = "none" =>
        \A o \in Orders, u \in SUBSET HostDirs :
            LET S1 == FileTable_Write(State, o, u)
            IN  \A d \in HostDirs :
                    /\ ~disk[d].exists =>
                           (~S1.disk[d].exists \/ Len(S1.disk[d].lines) >= 1)
                    /\ (/\ disk[d].exists
                        /\ \A db \in DOMAIN path2db :
                               SidecarOf(db) = d =>
                                   Records(path2db[db]) = EmptyMap)
                           => S1.disk[d] = disk[d]

\* C19: whenever the host stat of A succeeds, after move(A, B) with B
\* another path getFileAttrs(B) yields a record whose mode, uid and gid are
\* those statPath(A) returned before the move, whether or not A has a
\* registered handle.
C19_MoveCopies ==
    fault = "none" =>
        \A A \in RawPaths, B \in RawPaths :
            \A ub1 \in UBFor(State, A), ub2 \in UBFor(State, B) :
                LET st == FileTable_Stat(State, A, ub1)
                    m  == FileTable_Move(State, A, B, ub1, ub2)
                    g  == FileTable_GetFileAttrs(m, B, ub2)
                IN  (/\ HostExists(host, Canon(A))
                     /\ Canon(A) # Canon(B)
                     /\ ~Faulted(st.S) /\ ~Faulted(m) /\ ~Faulted(g.S)) =>
                        /\ g.ret # NULL
                        /\ g.ret.mode = st.ret.fstat.st_mode
                        /\ g.ret.uid = st.ret.fstat.st_uid
                        /\ g.ret.gid = st.ret.fstat.st_gid

\* C20: after move(A, B) with A different from B the store of A holds no
\* overlay entry for the filename of A, for every A that had one in its
\* loaded store before the call, whether or not A has a registered handle.
C20_MoveDeletesSource ==
    fault = "none" =>
        \A A \in RawPaths, B \in RawPaths :
            \A ub1 \in UBFor(State, A), ub2 \in UBFor(State, B) :
                LET m == FileTable_Move(State, A, B, ub1, ub2)
                IN  (/\ Canon(A) # Canon(B)
                     /\ dirname(Canon(A)) \in DOMAIN path2db
                     /\ Overlay(State, Canon(A), ub1) # NULL
                     /\ ~Faulted(m)) =>
                        Overlay(m, Canon(A), ub1) = NULL

\* C21: after remove(p) the store of p holds no overlay entry for the
\* filename of p, for every p that had one in its loaded store before the
\* call, whether or not a handle was registered for p.
C21_RemoveDeletesOverlay ==
    fault = "none" =>
        \A p \in RawPaths :
            \A ub \in UBFor(State, p) :
                LET m == FileTable_Remove(State, p, ub)
                IN  (/\ dirname(Canon(p)) \in DOMAIN path2db
                     /\ Overlay(State, Canon(p), ub) # NULL
                     /\ ~Faulted(m)) =>
                        Overlay(m, Canon(p), ub) = NULL

\* C22: the handles that are keys of the handle-to-path map after
\* move(A, B) are keys of it before the call, and when A has no registered
\* handle the call leaves both registry maps unchanged.
C22_MoveAllocatesNothing ==
    fault = "none" =>
        \A A \in RawPaths, B \in RawPaths :
            \A ub1 \in UBFor(State, A), ub2 \in UBFor(State, B) :
                LET m == FileTable_Move(State, A, B, ub1, ub2)
                IN  ~Faulted(m) =>
                        /\ DOMAIN m.handle2path \subseteq DOMAIN handle2path
                        /\ Canon(A) \notin DOMAIN path2handle =>
                               /\ m.path2handle = path2handle
                               /\ m.handle2path = handle2path

\* C23: the handle of a host object is never 0, no registered path has the
\* handle 0, 0 is not a key of a handle-to-path map, and resolving the handle
\* 0 yields absent.
C23_ZeroNeverKey ==
    /\ \A o \in Objects : make_file_handle(HostStatOf(o)) # Zero64
    /\ \A p \in DOMAIN path2handle : path2handle[p] # Zero64
    /\ Zero64 \notin DOMAIN handle2path
    /\ ~FileTable_GetAbsolutePath(State, Zero64).ret.found
    /\ Zero64 \notin DOMAIN nfsd_handle2path
    /\ ~FileTableNFSD_getCanonicalPath(nfsd_handle2path, Zero64).found

\* C24: a resolveHandle(h) call returns absent exactly when h is not a key
\* of the handle-to-path map and the mapped path otherwise, and leaves the
\* registry, the store cache, every store, the sidecar files and the dirty
\* set unchanged.
C24_ResolveFrame ==
    [][(nSteps' # nSteps /\ last'.op = "GetAbsolutePath") =>
          /\ UNCHANGED <<path2handle, handle2path, path2db, dirty, disk,
                         fault, nfsd_handle2path>>
          /\ last'.ret.found <=> last'.handle \in DOMAIN handle2path
          /\ last'.ret.found => last'.ret.result = handle2path[last'.handle]
          /\ last'.nfsd.found <=> last'.handle \in DOMAIN nfsd_handle2path
          /\ last'.nfsd.found =>
                 last'.nfsd.result = nfsd_handle2path[last'.handle]]_vars

\* a resolveHandle call has found a path in both registries, with a store
\* awaiting its flush
C24_Witness ==
    /\ last.op = "GetAbsolutePath"
    /\ last.ret.found
    /\ last.nfsd.found
    /\ dirty # {}

\* C25: in every reachable state every filename of every store is bound to
\* a record, never to a null pointer.
C25_NoNullEntries ==
    \A db \in DOMAIN path2db :
        \A n \in DOMAIN path2db[db] : path2db[db][n] # NULL

\* the step is a flush cycle
IsFlush == last'.op = "Write" /\ host' = host /\ nSteps' # nSteps
\* what a load of the sidecar file of store db can give
Loads(db) == {Records(FileAttrDB_new(disk, db, ub).attrs) : ub \in UBOutcomes}
\* the step has changed the records of store db
Mutates(db) ==
    /\ db \in DOMAIN path2db'
    /\ IF db \in DOMAIN path2db
       THEN Records(path2db'[db]) # Records(path2db[db])
       ELSE Records(path2db'[db]) \notin Loads(db)

\* C26: a step of setFileAttrs, remove or move that changes the records of
\* a store leaves the store in the dirty set, and a store leaves the dirty
\* set only in a flush cycle.
C26_MutationMarksDirty ==
    [][/\ \A db \in Dirs : (Mutates(db) /\ ~IsFlush) => db \in dirty'
       /\ ~IsFlush => dirty \subseteq dirty']_vars

\* a move has written an overlay entry in one store and deleted one in
\* another, and both stores are dirty
C26_Witness ==
    /\ last.op = "Move"
    /\ {"/x", "/y"} \subseteq dirty
    /\ {"/x", "/y"} \subseteq DOMAIN path2db
    /\ "a" \in DOMAIN path2db["/y"]
    /\ "a" \notin DOMAIN path2db["/x"]

\* C27: every record a completed setFileAttrs or move has set is in the
\* sidecar file of its store or its store is in the dirty set.
C27_NoLostMutation ==
    \A e \in mutated :
        (/\ e[1] \in DOMAIN path2db
         /\ e[2] \in DOMAIN path2db[e[1]]
         /\ path2db[e[1]][e[2]] # NULL) =>
            (e[1] \in dirty \/ OnDisk(e[1], e[2]))

\* C28: after the write of a store that holds at least one entry the sidecar
\* file exists and consists of exactly one line per entry of the store, the
\* line of that entry's record and filename.
C28_FileMatchesStore ==
    fault = "none" =>
        \A db \in DOMAIN path2db :
            DOMAIN path2db[db] # {} =>
                LET S1  == FileAttrDB_Write(State, db, TRUE)
                    f   == S1.disk[SidecarOf(db)]
                    mem == S1.path2db[db]
                IN  /\ f.exists
                    /\ Len(f.lines) = Cardinality(DOMAIN mem)
                    /\ {f.lines[i].name : i \in 1..Len(f.lines)} = DOMAIN mem
                    /\ \A i \in 1..Len(f.lines) :
                           /\ mem[f.lines[i].name] # NULL
                           /\ f.lines[i] =
                                  FileAttrs_Write(mem[f.lines[i].name],
                                                  f.lines[i].name)

\* a flush cycle has written a store of two records that was loaded from a
\* sidecar file
C28_Witness ==
    /\ last.op = "Write"
    /\ "/x" \in DOMAIN path2db
    /\ DOMAIN path2db["/x"] = {"a", "b"}
    /\ Len(disk["/x"].lines) = 2
    /\ disk["/x"].lines[1].name = "a"

\* C29: the load of a store from a sidecar file ends, and its entries are
\* exactly the records of the file.
C29_LoadTerminates ==
    /\ fault # "hang"
    /\ \A d \in HostDirs :
           disk[d].exists =>
               \A ub \in UBOutcomes :
                   LET re == FileAttrDB_new(disk, d, ub)
                   IN  /\ ~re.hang
                       /\ re.attrs = LoadLines(disk[d].lines, EmptyMap)

\* C30: a thread that holds the mutex holds it alone, so that a lock taken
\* while the mutex is held is taken by its owner; a worker that is in no
\* call (idle, or reading a record it was given) and the maintenance thread
\* outside Write hold it zero times, and a worker between two statements of
\* its call holds it once.
C30_ReentryBalanced ==
    /\ \A t \in Threads : held[t] > 0 => Free(t)
    /\ \A w \in Workers : pc[w] \in {"idle", Reading} => held[w] = 0
    /\ \A w \in Workers :
           (pc[w] \notin {"idle", Reading} /\ fault = "none") => held[w] = 1
    /\ pc["m"] \in {"Run", "Run_size", "Write", "exited"} => held["m"] = 0
    /\ pc["t"] \in {"alive", "done"} => held["t"] = 0

\* a worker is inside move, back from statPath, which took the mutex three
\* more times through getFileAttrs and the store lookup, and the other
\* worker has returned from a call that registered a handle
C30_Witness ==
    \E w \in Workers :
        /\ pc[w] = "Move_rekey"
        /\ frame[w].peak = 4
        /\ held[w] = 1
        /\ \A v \in Workers \ {w} : pc[v] = "idle" /\ held[v] = 0
        /\ path2handle # EmptyMap

\* C31: a worker that is about to canonicalize the path argument of
\* getFileHandle, move or remove does not hold the mutex.
C31_CanonBeforeLock ==
    \A w \in Workers :
        pc[w] \in {"GetFileHandle", "Move", "Remove"} => held[w] = 0

\* C32: once the destructor has cleared the run flag no step writes a
\* sidecar file.
C32_NoWriteAfterStop ==
    [][~doRun => disk' = disk]_vars

\* the maintenance thread has left its loop after the run flag was cleared
\* while a store is dirty with a record that was set and is in no file
C32_Witness ==
    /\ ~doRun /\ pc["t"] = "delete" /\ pc["m"] = "exited"
    /\ \E e \in mutated :
           /\ e[1] \in dirty
           /\ e[2] \in DOMAIN path2db[e[1]]
           /\ path2db[e[1]][e[2]] # NULL
           /\ ~OnDisk(e[1], e[2])

\* the registry of S is the registry of the current state
SameRegistry(S) ==
    S.path2handle = path2handle /\ S.handle2path = handle2path

\* C33: setFileAttrs, getFileAttrs and statPath, called with any path and any
\* record, leave path2handle and handle2path as they are.
C33_AttrsBypassHandles ==
    fault = "none" =>
        \A p \in AttrPaths : \A ub \in UBFor(State, p) :
            /\ \A a \in AttrInputs :
                   SameRegistry(FileTable_SetFileAttrs(State, p, a, ub))
            /\ SameRegistry(FileTable_GetFileAttrs(State, p, ub).S)
            /\ p \notin DotPaths =>
                   SameRegistry(FileTable_Stat(State, p, ub).S)

\* setFileAttrs has set a record for a path that has a registered handle,
\* and the handle is still registered
C33_Witness ==
    /\ last.op = "SetFileAttrs" /\ fault = "none"
    /\ filename(last.path) \notin DotNames
    /\ Canon(last.path) \in DOMAIN path2handle
    /\ handle2path[path2handle[Canon(last.path)]] = Canon(last.path)
    /\ dirname(Canon(last.path)) \in dirty

\* the filenames of store db before a call that may have to load it with
\* outcome ub
KeysBefore(db, ub) ==
    IF db \in DOMAIN path2db THEN DOMAIN path2db[db]
    ELSE DOMAIN FileAttrDB_new(disk, db, ub).attrs

\* C34: getFileAttrs(p) returns the record stored under p's filename or
\* none, and leaves the filenames of the directory's store and the dirty set
\* as they are; it may create the store.
C34_GetFileAttrsPure ==
    fault = "none" =>
        \A p \in RawPaths : \A ub \in UBFor(State, p) :
            LET r  == FileTable_GetFileAttrs(State, p, ub)
                db == dirname(Canon(p))
            IN  ~Faulted(r.S) =>
                    /\ r.S.dirty = dirty
                    /\ DOMAIN r.S.path2db[db] = KeysBefore(db, ub)
                    /\ \A d \in DOMAIN path2db :
                           DOMAIN r.S.path2db[d] = DOMAIN path2db[d]
                    /\ r.ret = IF filename(p) \in DOMAIN r.S.path2db[db]
                               THEN r.S.path2db[db][filename(p)] ELSE NULL

\* the step is a setFileAttrs that has set a uid for a path the host has
SetsUid ==
    /\ last'.op = "SetFileAttrs" /\ nSteps' # nSteps /\ host' = host
    /\ fault' = "none"
    /\ filename(last'.path) \notin DotNames
    /\ FileAttrs_Valid(last'.fstat.uid)
    /\ HostExists(host, last'.path)
\* statPath of the path of the last call returns the uid of that call
StatGivesUid ==
    \A ub \in UBFor(State, last.path) :
        LET r == FileTable_Stat(State, last.path, ub).ret
        IN  r.result = 0 /\ r.fstat.st_uid = last.fstat.uid

\* C35: after a setFileAttrs(p, r) with a uid other than the sentinel, for a
\* path p the host can stat, statPath(p) returns the uid of r.
C35_OverlayKeysCanonical ==
    [][SetsUid => StatGivesUid']_vars

\* C36: no two stores of the store cache are stores of the same host
\* directory, that is, of the same sidecar file.
C36_OneStorePerDirectory ==
    \A d1, d2 \in DOMAIN path2db :
        SidecarOf(d1) = SidecarOf(d2) => d1 = d2

\* C37: no worker that reads a record it was given by getFileAttrs reads a
\* record that a remove or a move of another thread has deleted.
C37_RecordOutlivesReader ==
    \A w \in Workers : pc[w] = Reading => ~frame[w].deleted

====
